---- MODULE Spec2Model ----
(***************************************************************************)
(* ubs2ynab: conversion of UBS / Revolut CSV exports and UBS e-mail        *)
(* notifications into YNAB transactions (src/ubs2ynab.py).                 *)
(*                                                                         *)
(* Spec        one invocation of one of the four importers, and after a    *)
(*             dry run the same invocation without --dry_run               *)
(* AssignSpec  _populateImportIds applied to batches drawn from bounded    *)
(*             sets (a batch may already carry import_ids)                 *)
(***************************************************************************)
EXTENDS Integers, Sequences, FiniteSets, TLC

VARIABLES
    pc,            \* "ready" | "done" | "failed"; AssignSpec: "assigned" |
                   \* "reimported" | "relabelled" | "reversed"
    mode,          \* --mode of the invocation, or None
    dry_run,       \* --dry_run
    rows,          \* the rows csv.DictReader yields
    msgs,          \* the messages mailbox.fetch yields
    cli_account_id, \* --account_id (CSV imports), or None
    account_map,   \* --account_map: alias -> YNAB account id (e-mail import)
    batch,         \* the list as it was handed to _populateImportIds
    transactions,  \* the list of NewTransaction being built / mutated in place
    data,          \* the batches handed to _createYnabTransactions
    api_calls,     \* the batches passed to TransactionsApi.create_transaction
    log,           \* the logging calls made, in order
    error,         \* the exception that ended the run, or None
    invocations    \* how many times the program was invoked on the input

vars == <<pc, mode, dry_run, rows, msgs, cli_account_id, account_map, batch, transactions,
          data, api_calls, log, error, invocations>>

(***************************************************************************)
(* Bounds of the model.                                                    *)
(***************************************************************************)
MaxBatch == 3
MaxNewer == 2
MaxMsgs == 3
MaxRows == 2

(***************************************************************************)
(* Python values.                                                          *)
(***************************************************************************)
\* Python's None, for the fields a NewTransaction() is constructed with.
None == "<None>"

\* The `if not t.import_id` test left out: every transaction is taken as unassigned.
FalsyAlways(s) == TRUE

\* `not s` for a str-or-None value: None and the empty string are falsy.
Falsy(s) == s = None \/ s = ""

Reverse(s) == [i \in 1..Len(s) |-> s[Len(s) + 1 - i]]

\* datetime.date, as a record; date.isoformat() / str(date) is YYYY-MM-DD.
Date(y, m, d) == [year |-> y, month |-> m, day |-> d]

Pad2(n) == IF n < 10 THEN "0" \o ToString(n) ELSE ToString(n)

Pad4(n) ==
    IF n < 10 THEN "000" \o ToString(n)
    ELSE IF n < 100 THEN "00" \o ToString(n)
    ELSE IF n < 1000 THEN "0" \o ToString(n)
    ELSE ToString(n)

IsoFormat(date) == Pad4(date.year) \o "-" \o Pad2(date.month) \o "-" \o Pad2(date.day)

\* TransactionClearedStatus
CLEARED == "cleared"
UNCLEARED == "uncleared"

\* NewTransaction(): every field None until set.
NewTransaction ==
    [account_id |-> None, var_date |-> None, payee_name |-> None,
     amount |-> None, cleared |-> None, import_id |-> None]

(***************************************************************************)
(* _populateImportIds                                                      *)
(***************************************************************************)
\* f'UBS2YNAB:{other_t.amount}:{other_t.var_date}:{ordinal}'
FormatImportId(amount, var_date, ordinal) ==
    "UBS2YNAB:" \o ToString(amount) \o ":" \o IsoFormat(var_date) \o ":" \o ToString(ordinal)

\* Grouping that also compares the account.
SameDateAmountAccount(item, t) ==
    item.var_date = t.var_date /\ item.amount = t.amount /\ item.account_id = t.account_id

\* Grouping that compares every field the importer set.
SameTransaction(item, t) ==
    /\ item.var_date = t.var_date /\ item.amount = t.amount
    /\ item.payee_name = t.payee_name /\ item.account_id = t.account_id
    /\ item.cleared = t.cleared

\* item.var_date == t.var_date and item.amount == t.amount
SameDateAmount(item, t) == item.var_date = t.var_date /\ item.amount = t.amount

\* [index for (index, item) in enumerate(transactions) if ...], ascending.
RECURSIVE IndicesFrom(_, _, _)
IndicesFrom(txs, t, index) ==
    IF index > Len(txs) THEN <<>>
    ELSE (IF SameDateAmount(txs[index], t) THEN <<index>> ELSE <<>>)
         \o IndicesFrom(txs, t, index + 1)

\* The index list with the reverse() left out.
IndicesNotReversed(txs, t) == IndicesFrom(txs, t, 1)

\* The index list after same_date_amount_indicies.reverse().
SameDateAmountIndices(txs, t) == Reverse(IndicesFrom(txs, t, 1))

\* The ordinal is not used: every member of the group gets ordinal 0.
RECURSIVE AssignGroupSameOrdinal(_, _, _)
AssignGroupSameOrdinal(txs, indices, pos) ==
    IF pos > Len(indices) THEN txs
    ELSE LET t_index == indices[pos]
             other_t == txs[t_index]
             id      == FormatImportId(other_t.amount, other_t.var_date, 0)
         IN  AssignGroupSameOrdinal([txs EXCEPT ![t_index].import_id = id], indices, pos + 1)

\* enumerate(indices, 1): ordinals counted from 1.
RECURSIVE AssignGroupFromOne(_, _, _)
AssignGroupFromOne(txs, indices, pos) ==
    IF pos > Len(indices) THEN txs
    ELSE LET t_index == indices[pos]
             other_t == txs[t_index]
             id      == FormatImportId(other_t.amount, other_t.var_date, pos)
         IN  AssignGroupFromOne([txs EXCEPT ![t_index].import_id = id], indices, pos + 1)

\* for (ordinal, t_index) in enumerate(indices): the ordinal is 0-based.
RECURSIVE AssignGroup(_, _, _)
AssignGroup(txs, indices, pos) ==
    IF pos > Len(indices) THEN txs
    ELSE LET t_index == indices[pos]
             other_t == txs[t_index]
             id      == FormatImportId(other_t.amount, other_t.var_date, pos - 1)
         IN  AssignGroup([txs EXCEPT ![t_index].import_id = id], indices, pos + 1)

\* The outer loop, from list position k on.
RECURSIVE PopulateFrom(_, _)
PopulateFrom(txs, k) ==
    IF k > Len(txs) THEN txs
    ELSE IF Falsy(txs[k].import_id)
         THEN PopulateFrom(AssignGroup(txs, SameDateAmountIndices(txs, txs[k]), 1), k + 1)
         ELSE PopulateFrom(txs, k + 1)

PopulateImportIds(txs) == PopulateFrom(txs, 1)

(***************************************************************************)
(* Amounts: int(float(text) * 1000).                                       *)
(***************************************************************************)
\* A two-decimal amount text ("12.34", "1’234.56" with the ’ removed) is
\* modelled by its value in hundredths.  LossyCents are the values below
\* 20.00 for which the IEEE-754 double product float(text) * 1000 lies just
\* under the integer, so that int() truncates to one milliunit less (2.01 ->
\* 2009.9999999999998 -> 2009).  The model draws magnitudes below 20.00 only.
LossyCents ==
    {201, 203, 402, 406, 803, 804, 811, 812, 819,
     1606, 1608, 1613, 1615, 1622, 1624, 1631, 1633, 1638}

Abs(n) == IF n < 0 THEN -n ELSE n

\* int(float(text) * 1000); int() rounds towards zero.
Milliunits(cents) ==
    IF Abs(cents) \in LossyCents
    THEN (IF cents < 0 THEN -(10 * Abs(cents) - 1) ELSE 10 * Abs(cents) - 1)
    ELSE 10 * cents

(***************************************************************************)
(* Timestamps and dates of e-mail notifications.                           *)
(***************************************************************************)
\* Message timestamps are seconds since 2025-01-01 00:00:00.
SecondsPerDay == 86400

MonthDays == <<31, 28, 31, 30, 31, 30, 31, 31, 30, 31, 30, 31>>

RECURSIVE DateOfYearDay(_, _)
DateOfYearDay(n, month) ==
    IF n < MonthDays[month] THEN Date(2025, month, n + 1)
    ELSE DateOfYearDay(n - MonthDays[month], month + 1)

\* n.date.date()
DateOf(ts) == DateOfYearDay(ts \div SecondsPerDay, 1)

\* MAX_CREDIT_CARD_TRANSFT_TIMEDELTA = timedelta(minutes=1), in seconds.
MAX_CREDIT_CARD_TRANSFT_TIMEDELTA == 60

(***************************************************************************)
(* _createYnabTransactions                                                 *)
(***************************************************************************)
LogEntry(level, event, arg) == [level |-> level, event |-> event, arg |-> arg]

\* The state a run ends in.
Outcome(p, b, txs, d, calls, lg, err) ==
    [pc |-> p, batch |-> b, transactions |-> txs, data |-> d,
     api_calls |-> calls, log |-> lg, error |-> err]

\* dry_run is not looked at: the request is always sent.
CreateIgnoringDryRun(txs, dry, lg) ==
    [data |-> <<txs>>, api_calls |-> <<txs>>,
     log |-> lg \o << LogEntry("debug", "response", Len(txs)),
                     LogEntry("info", "saved_transactions", Len(txs)) >>]

\* The request is sent a second time.
CreateWithRetry(txs, dry, lg) ==
    IF dry
    THEN [data |-> <<txs>>, api_calls |-> <<>>,
          log |-> Append(lg, LogEntry("debug", "request_dry_run", Len(txs)))]
    ELSE [data |-> <<txs>>, api_calls |-> <<txs, txs>>,
          log |-> lg \o << LogEntry("debug", "response", Len(txs)),
                          LogEntry("info", "saved_transactions", Len(txs)) >>]

\* _createYnabTransactions(ynab_api_client, budget_id, transactions, dry_run)
CreateYnabTransactions(txs, dry, lg) ==
    IF dry
    THEN [data |-> <<txs>>, api_calls |-> <<>>,
          log |-> Append(lg, LogEntry("debug", "request_dry_run", Len(txs)))]
    ELSE [data |-> <<txs>>, api_calls |-> <<txs>>,
          log |-> lg \o << LogEntry("debug", "response", Len(txs)),
                          LogEntry("info", "saved_transactions", Len(txs)) >>]

\* The call of _populateImportIds left out.
CreateWithoutImportIds(txs, dry, lg) ==
    LET sent == CreateYnabTransactions(txs, dry, lg)
    IN  Outcome("done", txs, txs, sent.data, sent.api_calls, sent.log, None)

\* The tail of every importer: _populateImportIds(transactions), then
\* _createYnabTransactions(..., transactions, dry_run).
PopulateAndCreate(txs, dry, lg) ==
    LET assigned == PopulateImportIds(txs)
        sent     == CreateYnabTransactions(assigned, dry, lg)
    IN  Outcome("done", txs, assigned, sent.data, sent.api_calls, sent.log, None)

\* The transactions built before the exception are assigned and submitted.
RaisedAfterSubmitting(txs, lg, exc) ==
    LET assigned == PopulateImportIds(txs)
    IN  Outcome("failed", txs, assigned, <<assigned>>, <<assigned>>, lg, exc)

\* An exception leaves the function: nothing is assigned, nothing is handed on.
Raised(txs, lg, exc) == Outcome("failed", <<>>, txs, <<>>, <<>>, lg, exc)

(***************************************************************************)
(* importUbsFromEmail                                                      *)
(***************************************************************************)
MODE_IMPORT_CREDIT_CSV == "import_credit_csv"
MODE_IMPORT_DEBIT_CSV == "import_debit_csv"
MODE_IMPORT_REVOLUT_CSV == "import_revolut_csv"
MODE_IMPORT_UBS_FROM_GMAIL == "import_ubs_email_notifications"

\* A fetched message: its date and what its html holds.  kind says which
\* pattern the text between the NOTIFICATION_CONTENT markers matches:
\*   "no_payload"   UBS_NOTIFICATION_REGEXP does not match the html
\*   "card_outflow" UBS_CREDIT_CARD_OUTFLOW_REGEXP: cents, alias (card), payee
\*   "card_inflow"  UBS_CREDIT_CARD_INFLOW_REGEXP: alias (card)
\*   "account"      UBS_DEBIT_CARD_REGEXP: alias (account), action, cents
\*   "other"        a payload none of the three patterns matches
Message(date, kind, alias, action, cents, payee) ==
    [date |-> date, kind |-> kind, alias |-> alias, action |-> action,
     cents |-> cents, payee |-> payee]

\* The fetch loop: messages without a payload are skipped with a warning.
Notifications(ms) == SelectSeq(ms, LAMBDA m : m.kind # "no_payload")

RECURSIVE FetchLog(_, _)
FetchLog(ms, i) ==
    IF i > Len(ms) THEN <<>>
    ELSE (IF ms[i].kind = "no_payload"
          THEN << LogEntry("warning", "no_notification_found", ms[i].date) >>
          ELSE <<>>) \o FetchLog(ms, i + 1)

\* <= instead of <: a companion exactly one minute away still counts.
WithinTimedeltaInclusive(nn, n) == Abs(nn.date - n.date) <= MAX_CREDIT_CARD_TRANSFT_TIMEDELTA

\* abs(nn.date - n.date) < MAX_CREDIT_CARD_TRANSFT_TIMEDELTA
WithinTimedelta(nn, n) == Abs(nn.date - n.date) < MAX_CREDIT_CARD_TRANSFT_TIMEDELTA

\* p1 and abs(...) < MAX_... and p1.group(2) == 'debited'
IsDebitNearby(nn, n) ==
    nn.kind = "account" /\ WithinTimedelta(nn, n) /\ nn.action = "debited"

\* The lookups go one position further on each side when the neighbours
\* give nothing.
DebitSumTwoAway(ns, i) ==
    LET sum(j) == IF j \in 1..Len(ns) /\ IsDebitNearby(ns[j], ns[i]) THEN ns[j].cents ELSE 0
    IN  IF sum(i - 1) # 0 THEN sum(i - 1)
        ELSE IF sum(i + 1) # 0 THEN sum(i + 1)
        ELSE IF sum(i - 2) # 0 THEN sum(i - 2)
        ELSE sum(i + 2)

\* The following neighbour is looked at first.
DebitSumFollowingFirst(ns, i) ==
    LET sum(j) == IF j \in 1..Len(ns) /\ IsDebitNearby(ns[j], ns[i]) THEN ns[j].cents ELSE 0
    IN  IF sum(i + 1) # 0 THEN sum(i + 1) ELSE sum(i - 1)

\* A debit that resolved the inflow before it is consumed: it does not
\* resolve the inflow after it.
DebitSumConsumed(ns, i) ==
    LET sum(j) == IF j \in 1..Len(ns) /\ IsDebitNearby(ns[j], ns[i]) THEN ns[j].cents ELSE 0
        consumed == /\ i > 2
                    /\ ns[i - 2].kind = "card_inflow"
                    /\ IsDebitNearby(ns[i - 1], ns[i - 2])
        before == IF consumed THEN 0 ELSE sum(i - 1)
    IN  IF before # 0 THEN before ELSE sum(i + 1)

\* debit_sum as the two lookups leave it, in hundredths (float(p1.group(3))).
DebitSum(ns, i) ==
    LET before == IF i > 1 /\ IsDebitNearby(ns[i - 1], ns[i]) THEN ns[i - 1].cents ELSE 0
    IN  IF before = 0 /\ i < Len(ns) /\ IsDebitNearby(ns[i + 1], ns[i])
        THEN ns[i + 1].cents
        ELSE before

\* account_map[alias] followed by `if not t.account_id: raise KeyError`.
HasAccount(amap, alias) == alias \in DOMAIN amap /\ ~Falsy(amap[alias])

\* The unknown notification taken as fatal.
UnknownNotificationRaises(n) == [exc |-> "ValueError", txs |-> <<>>, log |-> <<>>]

\* else: logging.warning('Unknown notification at %s: %s', ...)
UnknownNotification(n) ==
    [exc |-> None, txs |-> <<>>,
     log |-> << LogEntry("warning", "unknown_notification", n.date) >>]

\* The unmapped alias skipped with a warning instead of raised.
UnmappedAliasSkipped(n) ==
    [exc |-> None, txs |-> <<>>,
     log |-> << LogEntry("warning", "unknown_notification", n.date) >>]

\* account_map[alias] raises KeyError, or `if not t.account_id: raise KeyError`.
UnmappedAlias(n) == [exc |-> "KeyError", txs |-> <<>>, log |-> <<>>]

\* A 'debited' notification next to a card inflow it resolves is merged into
\* the inflow: it appends no transaction of its own.
ConvertAccountMerged(ns, i, amap) ==
    LET n == ns[i]
        merged(j) == /\ j \in 1..Len(ns)
                     /\ ns[j].kind = "card_inflow"
                     /\ n.action = "debited"
                     /\ WithinTimedelta(n, ns[j])
    IN  IF ~HasAccount(amap, n.alias) THEN UnmappedAlias(n)
        ELSE IF merged(i - 1) \/ merged(i + 1)
        THEN [exc |-> None, txs |-> <<>>,
              log |-> << LogEntry("warning", "unknown_notification", n.date) >>]
        ELSE [exc |-> None,
              txs |-> << [NewTransaction EXCEPT
                             !.var_date = DateOf(n.date),
                             !.account_id = amap[n.alias],
                             !.amount = Milliunits(IF n.action = "debited"
                                                   THEN -n.cents ELSE n.cents)] >>,
              log |-> << LogEntry("debug", "debit_account_notification", n.date) >>]

\* The branch of UBS_DEBIT_CARD_REGEXP: an account debited or credited.
ConvertAccount(ns, i, amap) ==
    LET n == ns[i]
    IN  IF ~HasAccount(amap, n.alias) THEN UnmappedAlias(n)
        ELSE [exc |-> None,
              txs |-> << [NewTransaction EXCEPT
                             !.var_date = DateOf(n.date),
                             !.account_id = amap[n.alias],
                             !.amount = Milliunits(IF n.action = "debited"
                                                   THEN -n.cents ELSE n.cents)] >>,
              log |-> << LogEntry("debug", "debit_account_notification", n.date) >>]

\* What one notification does: the transaction appended (if any), the
\* logging call, or the KeyError.
Convert(ns, i, amap) ==
    LET n == ns[i]
        t == [NewTransaction EXCEPT !.var_date = DateOf(n.date)]
    IN  CASE n.kind = "card_outflow" ->
               IF ~HasAccount(amap, n.alias) THEN UnmappedAlias(n)
               ELSE [exc |-> None,
                     txs |-> << [t EXCEPT !.account_id = amap[n.alias],
                                          !.payee_name = n.payee,
                                          !.amount = Milliunits(-n.cents)] >>,
                     log |-> << LogEntry("debug", "credit_card_outflow", n.date) >>]
          [] n.kind = "card_inflow" ->
               IF DebitSum(ns, i) > 0
               THEN IF ~HasAccount(amap, n.alias) THEN UnmappedAlias(n)
                    ELSE [exc |-> None,
                          txs |-> << [t EXCEPT !.account_id = amap[n.alias],
                                               !.amount = Milliunits(DebitSum(ns, i))] >>,
                          log |-> << LogEntry("debug", "matched_credit_inflow", n.date) >>]
               ELSE [exc |-> None, txs |-> <<>>,
                     log |-> << LogEntry("warning", "no_debit_outflow_nearby", n.date) >>]
          [] n.kind = "account" -> ConvertAccount(ns, i, amap)
          [] OTHER -> UnknownNotification(n)

\* for i, n in enumerate(notifications): ..., stopping at the first KeyError.
RECURSIVE ConvertFrom(_, _, _, _, _)
ConvertFrom(ns, i, amap, txs, lg) ==
    IF i > Len(ns) THEN [exc |-> None, txs |-> txs, log |-> lg]
    ELSE LET r == Convert(ns, i, amap)
         IN  IF r.exc # None THEN [exc |-> r.exc, txs |-> txs, log |-> lg]
             ELSE ConvertFrom(ns, i + 1, amap, txs \o r.txs, lg \o r.log)

importUbsFromEmail(ms, amap, dry) ==
    LET ns == Notifications(ms)
        lg == Append(FetchLog(ms, 1), LogEntry("info", "read_emails", Len(ns)))
    IN  IF Len(ns) = 0
        THEN Outcome("done", <<>>, <<>>, <<>>, <<>>, lg, None)
        ELSE LET r == ConvertFrom(ns, 1, amap, <<>>, lg)
             IN  IF r.exc # None THEN Raised(r.txs, r.log, r.exc)
                 ELSE PopulateAndCreate(Reverse(r.txs), dry, r.log)

(***************************************************************************)
(* CSV fields.                                                             *)
(***************************************************************************)
\* An amount field of a CSV row: "" (kind "empty"), a two-decimal number
\* (kind "num", its value in hundredths), or text float() rejects ("bad").
Field(kind, cents) == [kind |-> kind, cents |-> cents]
EmptyField == Field("empty", 0)
BadField == Field("bad", 0)
Num(cents) == Field("num", cents)

\* `if row[...]`: a non-empty string.
Truthy(f) == f.kind # "empty"

\* float(text) succeeds on a number only; '' and other text raise ValueError.
IsFloat(f) == f.kind = "num"

\* A date field: the date written, and the format it is written in
\* ("dmy": dd.mm.yyyy, "iso": yyyy-mm-dd).
DateText(fmt, date) == [fmt |-> fmt, date |-> date]

\* datetime.strptime(text, '%d.%m.%Y') raises ValueError on any other format.
IsDmy(text) == text.fmt = "dmy"

\* datetime.fromisoformat(text) raises ValueError on any other format.
IsIso(text) == text.fmt = "iso"

(***************************************************************************)
(* importCreditCsv                                                         *)
(***************************************************************************)
\* _isCreditIncomingTransfer(payee)
IsCreditIncomingTransfer(payee) == payee = "TRANSFER FROM ACCOUNT"

\* One row of the credit card CSV: the transaction, or the ValueError.
CreditRow(row, account_id) ==
    LET t == [NewTransaction EXCEPT !.account_id = account_id,
                                    !.var_date = row.purchase_date.date,
                                    !.payee_name = row.booking_text]
    IN  IF ~IsDmy(row.purchase_date) THEN [exc |-> "ValueError", txs |-> <<>>]
        ELSE IF Truthy(row.credit)
        THEN IF ~IsFloat(row.credit) THEN [exc |-> "ValueError", txs |-> <<>>]
             ELSE [exc |-> None,
                   txs |-> << [t EXCEPT !.amount = Milliunits(row.credit.cents),
                                        !.cleared = CLEARED] >>]
        ELSE IF Truthy(row.debit)
        THEN IF ~IsFloat(row.debit) THEN [exc |-> "ValueError", txs |-> <<>>]
             ELSE [exc |-> None,
                   txs |-> << [t EXCEPT !.amount = -Milliunits(row.debit.cents),
                                        !.cleared = CLEARED] >>]
        ELSE IF ~IsFloat(row.amount) THEN [exc |-> "ValueError", txs |-> <<>>]
             ELSE LET guess == -Milliunits(row.amount.cents)
                  IN  [exc |-> None,
                       txs |-> << [t EXCEPT !.amount = IF IsCreditIncomingTransfer(row.booking_text)
                                                       THEN -guess ELSE guess,
                                            !.cleared = UNCLEARED] >>]

\* `continue` instead of `break`: a row without account number is skipped
\* and the scan goes on.
RECURSIVE CreditRowsSkippingSummary(_, _, _, _)
CreditRowsSkippingSummary(rs, i, account_id, txs) ==
    IF i > Len(rs) THEN [exc |-> None, txs |-> txs]
    ELSE IF rs[i].account_number = ""
    THEN CreditRowsSkippingSummary(rs, i + 1, account_id, txs)
    ELSE LET r == CreditRow(rs[i], account_id)
         IN  IF r.exc # None THEN [exc |-> r.exc, txs |-> txs]
             ELSE CreditRowsSkippingSummary(rs, i + 1, account_id, txs \o r.txs)

\* for row in c: ..., with the break at the first row without account number.
RECURSIVE CreditRowsFrom(_, _, _, _)
CreditRowsFrom(rs, i, account_id, txs) ==
    IF i > Len(rs) \/ rs[i].account_number = "" THEN [exc |-> None, txs |-> txs]
    ELSE LET r == CreditRow(rs[i], account_id)
         IN  IF r.exc # None THEN [exc |-> r.exc, txs |-> txs]
             ELSE CreditRowsFrom(rs, i + 1, account_id, txs \o r.txs)

importCreditCsv(rs, account_id, dry) ==
    LET r == CreditRowsFrom(rs, 1, account_id, <<>>)
    IN  IF r.exc # None THEN Raised(r.txs, <<>>, r.exc)
        ELSE PopulateAndCreate(r.txs, dry, <<>>)

(***************************************************************************)
(* importDebitCsv                                                          *)
(***************************************************************************)
DebitRow(row, account_id) ==
    LET t == [NewTransaction EXCEPT !.account_id = account_id,
                                    !.var_date = row.trade_date.date,
                                    !.payee_name = row.description1]
        str_amount == IF Truthy(row.credit) THEN row.credit ELSE row.debit
    IN  IF ~IsIso(row.trade_date) \/ ~IsFloat(str_amount)
        THEN [exc |-> "ValueError", txs |-> <<>>]
        ELSE [exc |-> None,
              txs |-> << [t EXCEPT !.amount = Milliunits(str_amount.cents),
                                   !.cleared = CLEARED] >>]

RECURSIVE DebitRowsFrom(_, _, _, _)
DebitRowsFrom(rs, i, account_id, txs) ==
    IF i > Len(rs) THEN [exc |-> None, txs |-> txs]
    ELSE LET r == DebitRow(rs[i], account_id)
         IN  IF r.exc # None THEN [exc |-> r.exc, txs |-> txs]
             ELSE DebitRowsFrom(rs, i + 1, account_id, txs \o r.txs)

\* The list reversed before _populateImportIds, as for an oldest-first source.
importDebitCsvReversed(rs, account_id, dry) ==
    LET r == DebitRowsFrom(rs, 1, account_id, <<>>)
    IN  IF r.exc # None THEN Raised(r.txs, <<>>, r.exc)
        ELSE PopulateAndCreate(Reverse(r.txs), dry, <<>>)

importDebitCsv(rs, account_id, dry) ==
    LET r == DebitRowsFrom(rs, 1, account_id, <<>>)
    IN  IF r.exc # None THEN Raised(r.txs, <<>>, r.exc)
        ELSE PopulateAndCreate(r.txs, dry, <<>>)

(***************************************************************************)
(* importRevolutCsv                                                        *)
(***************************************************************************)
\* str.startswith
StartsWith(str, prefix) ==
    Len(str) >= Len(prefix) /\ SubSeq(str, 1, Len(prefix)) = prefix

\* The description tests applied whatever the row's Type.
RevolutSkippedAnyType(row) ==
    \/ row.product # "Current"
    \/ StartsWith(row.description, "To pocket ")
    \/ row.description = "Balance migration to another region or legal entity"

\* The two `continue` tests of the loop.
RevolutSkipped(row) ==
    \/ row.product # "Current"
    \/ /\ row.type = "Transfer"
       /\ \/ StartsWith(row.description, "To pocket ")
          \/ row.description = "Balance migration to another region or legal entity"

RevolutRow(row, account_id) ==
    LET t == [NewTransaction EXCEPT !.account_id = account_id,
                                    !.var_date = row.started_date.date,
                                    !.payee_name = row.description]
    IN  IF RevolutSkipped(row) THEN [exc |-> None, txs |-> <<>>]
        ELSE IF ~IsIso(row.started_date) \/ ~IsFloat(row.amount) \/ ~IsFloat(row.fee)
        THEN [exc |-> "ValueError", txs |-> <<>>]
        ELSE [exc |-> None,
              txs |-> << [t EXCEPT !.amount = Milliunits(row.amount.cents)
                                              - Milliunits(row.fee.cents),
                                   !.cleared = IF row.state = "COMPLETED"
                                               THEN CLEARED ELSE UNCLEARED] >>]

RECURSIVE RevolutRowsFrom(_, _, _, _)
RevolutRowsFrom(rs, i, account_id, txs) ==
    IF i > Len(rs) THEN [exc |-> None, txs |-> txs]
    ELSE LET r == RevolutRow(rs[i], account_id)
         IN  IF r.exc # None THEN [exc |-> r.exc, txs |-> txs]
             ELSE RevolutRowsFrom(rs, i + 1, account_id, txs \o r.txs)

\* The list reversed a second time, after _populateImportIds.
importRevolutCsvReversedAgain(rs, account_id, dry) ==
    LET r == RevolutRowsFrom(rs, 1, account_id, <<>>)
        assigned == Reverse(PopulateImportIds(Reverse(r.txs)))
        sent == CreateYnabTransactions(assigned, dry, <<>>)
    IN  IF r.exc # None THEN Raised(r.txs, <<>>, r.exc)
        ELSE Outcome("done", Reverse(r.txs), assigned, sent.data, sent.api_calls,
                     sent.log, None)

\* transactions.reverse() left out: the batch stays in row order.
importRevolutCsvNotReversed(rs, account_id, dry) ==
    LET r == RevolutRowsFrom(rs, 1, account_id, <<>>)
    IN  IF r.exc # None THEN Raised(r.txs, <<>>, r.exc)
        ELSE PopulateAndCreate(r.txs, dry, <<>>)

importRevolutCsv(rs, account_id, dry) ==
    LET r == RevolutRowsFrom(rs, 1, account_id, <<>>)
    IN  IF r.exc # None THEN Raised(r.txs, <<>>, r.exc)
        ELSE PopulateAndCreate(Reverse(r.txs), dry, <<>>)

(***************************************************************************)
(* Batches for AssignSpec.                                                 *)
(***************************************************************************)
BatchDates == {Date(2025, 1, 1), Date(2025, 1, 2)}
BatchAmounts == {100000, -51230}
\* import_id values a transaction may arrive with: unset, empty, set by
\* somebody else.
GivenImportIds == {None, "", "KEEP:1"}

\* (payee_name, account_id, cleared) of a transaction: none of them is read
\* by _populateImportIds.
Labels ==
    { <<"First", "acc-1", CLEARED>>, <<"Second", "acc-1", CLEARED>>,
      <<"First", "acc-2", CLEARED>>, <<"First", "acc-1", UNCLEARED>> }

Tx(label, date, amount, id) ==
    [account_id |-> label[2], var_date |-> date, payee_name |-> label[1],
     amount |-> amount, cleared |-> label[3], import_id |-> id]

SeqsUpTo(S, n) == UNION { [1..k -> S] : k \in 0..n }

GivenTxs ==
    { Tx(<<"First", "acc-1", CLEARED>>, d, a, id) :
        d \in BatchDates, a \in BatchAmounts, id \in GivenImportIds }

FreshTxs == { t \in GivenTxs : t.import_id = None }

NoIds(txs) == \A i \in 1..Len(txs) : txs[i].import_id \in {None, ""}
AllIds(txs) == \A i \in 1..Len(txs) : txs[i].import_id \notin {None, ""}

\* The same transactions as rebuilt from the source: no import_id yet.
Rebuilt(txs) == [i \in 1..Len(txs) |-> [txs[i] EXCEPT !.import_id = None]]

Relabel(txs, labels) ==
    [i \in 1..Len(txs) |->
        [txs[i] EXCEPT !.payee_name = labels[i][1], !.account_id = labels[i][2],
                       !.cleared = labels[i][3]]]

Idle ==
    /\ mode = None /\ dry_run = FALSE /\ rows = <<>> /\ msgs = <<>>
    /\ cli_account_id = None /\ account_map = <<>> /\ data = <<>> /\ api_calls = <<>> /\ log = <<>>
    /\ error = None /\ invocations = 0

AssignInit ==
    /\ Idle
    /\ pc = "ready"
    /\ batch \in SeqsUpTo(GivenTxs, MaxBatch)
    /\ transactions = batch

AssignFrame ==
    UNCHANGED <<mode, dry_run, rows, msgs, cli_account_id, account_map, data, api_calls, log,
                error, invocations>>

\* _populateImportIds(transactions) on the list as it stands.
Populate ==
    /\ pc \in {"ready", "assigned", "reimported", "relabelled"}
    /\ batch' = transactions
    /\ transactions' = PopulateImportIds(transactions)
    /\ pc' = IF pc = "ready" THEN "assigned" ELSE pc
    /\ AssignFrame

\* The source has grown: the batch is rebuilt from it, newer transactions
\* first, and assigned.
Reimport ==
    /\ pc = "assigned"
    /\ NoIds(batch)
    /\ \E newer \in SeqsUpTo(FreshTxs, MaxNewer) :
        /\ Len(newer) > 0
        /\ batch' = newer \o Rebuilt(batch)
    /\ transactions' = PopulateImportIds(batch')
    /\ pc' = "reimported"
    /\ AssignFrame

\* A batch with other payees, accounts and cleared flags, assigned.
AssignRelabelled ==
    /\ pc = "assigned"
    /\ \A i \in 1..Len(batch) : batch[i].import_id = None
    /\ \E labels \in [1..Len(batch) -> Labels] : batch' = Relabel(batch, labels)
    /\ transactions' = PopulateImportIds(batch')
    /\ pc' = "relabelled"
    /\ AssignFrame

\* The same batch handed over in the opposite orientation, and assigned.
AssignReversed ==
    /\ pc = "assigned"
    /\ \A i \in 1..Len(batch) : batch[i].import_id = None
    /\ batch' = Reverse(batch)
    /\ transactions' = PopulateImportIds(batch')
    /\ pc' = "reversed"
    /\ AssignFrame

AssignNext == Populate \/ Reimport \/ AssignRelabelled \/ AssignReversed

AssignSpec == AssignInit /\ [][AssignNext]_vars

(***************************************************************************)
(* Inputs of the importers.                                                *)
(***************************************************************************)
\* 2025-01-02 00:00:00: the timestamps of the model lie around this midnight.
T0 == SecondsPerDay

NoPayloadMessages == { Message(T0, "no_payload", None, None, 0, None) }
OtherMessages == { Message(T0, "other", None, None, 0, None) }
OutflowMessages ==
    { Message(T0, "card_outflow", "1234", None, c, "Somemarkt AG") : c \in {0, 201} }
InflowMessages ==
    { Message(t, "card_inflow", "1234", None, 0, None) : t \in {T0 - 1, T0} }
DebitedMessages ==
    { Message(t, "account", "Acc", "debited", c, None) :
        t \in {T0 - 60, T0 - 1, T0, T0 + 59}, c \in {0, 201, 1250} }
CreditedMessages ==
    { Message(T0, "account", "Acc", "credited", c, None) : c \in {0, 1250} }

Messages ==
    NoPayloadMessages \cup OtherMessages \cup OutflowMessages \cup InflowMessages
    \cup DebitedMessages \cup CreditedMessages

\* --account_map: every alias mapped; or the account alias mapped to ''; or
\* the card mapped to '' and the account alias missing.
AccountMaps ==
    { ("1234" :> "credit_account_id") @@ ("Acc" :> "debit_account_id"),
      ("1234" :> "credit_account_id") @@ ("Acc" :> ""),
      ("1234" :> "") }

AccountIds == {"some_account_id"}

CsvDate == Date(2000, 1, 13)

CreditRows ==
    { [account_number |-> "", purchase_date |-> DateText("dmy", CsvDate),
       booking_text |-> "", credit |-> EmptyField, debit |-> EmptyField,
       amount |-> Num(1000)] }
    \cup
    { [account_number |-> "ACC1", purchase_date |-> d, booking_text |-> b,
       credit |-> c, debit |-> db, amount |-> a] :
        d \in {DateText("dmy", CsvDate), DateText("iso", CsvDate)},
        b \in {"Test payee", "TRANSFER FROM ACCOUNT"},
        c \in {EmptyField, Num(1500)}, db \in {EmptyField, Num(201)},
        a \in {EmptyField, Num(1000), Num(-201), BadField} }

DebitRows ==
    { [trade_date |-> d, description1 |-> "Test payee", credit |-> c, debit |-> db] :
        d \in {DateText("iso", CsvDate), DateText("iso", Date(2000, 1, 14)),
               DateText("dmy", CsvDate)},
        c \in {EmptyField, Num(1250), BadField}, db \in {EmptyField, Num(-201)} }

RevolutRow0(product, type, description, date, amount, fee, state) ==
    [product |-> product, type |-> type, description |-> description,
     started_date |-> date, amount |-> amount, fee |-> fee, state |-> state]

RevolutRows ==
    { RevolutRow0("Savings", "Transfer", "First", DateText("iso", CsvDate),
                  Num(1000), Num(0), "COMPLETED") }
    \cup
    { RevolutRow0("Current", "Transfer", d, DateText("iso", CsvDate),
                  Num(1000), Num(0), "COMPLETED") :
        d \in {"To pocket CHF Savings",
               "Balance migration to another region or legal entity"} }
    \cup
    { RevolutRow0("Current", td[1], td[2], d, af[1], af[2], st) :
        td \in { <<"Transfer", "To pocket">>, <<"CARD_PAYMENT", "To pocket CHF Savings">>,
                 <<"CARD_PAYMENT", "First">>, <<"CARD_PAYMENT", "Second">> },
        d \in {DateText("iso", CsvDate), DateText("dmy", CsvDate)},
        af \in { <<Num(1000), Num(200)>>, <<Num(-1000), Num(200)>>,
                 <<Num(201), Num(0)>>, <<BadField, Num(0)>> },
        st \in {"COMPLETED", "PENDING"} }

(***************************************************************************)
(* One invocation of the program.                                          *)
(***************************************************************************)
Init ==
    /\ Idle
    /\ pc = "ready"
    /\ batch = <<>>
    /\ transactions = <<>>

\* The run ends in outcome r.
Ends(r) ==
    /\ pc' = r.pc
    /\ batch' = r.batch
    /\ transactions' = r.transactions
    /\ data' = r.data
    /\ api_calls' = r.api_calls
    /\ log' = r.log
    /\ error' = r.error

RunImportCreditCsv ==
    /\ pc = "ready"
    /\ \E rs \in SeqsUpTo(CreditRows, MaxRows), a \in AccountIds, dry \in BOOLEAN :
        /\ mode' = MODE_IMPORT_CREDIT_CSV
        /\ rows' = rs /\ dry_run' = dry /\ cli_account_id' = a
        /\ Ends(importCreditCsv(rs, a, dry))
    /\ invocations' = 1
    /\ UNCHANGED <<msgs, account_map>>

RunImportDebitCsv ==
    /\ pc = "ready"
    /\ \E rs \in SeqsUpTo(DebitRows, MaxRows), a \in AccountIds, dry \in BOOLEAN :
        /\ mode' = MODE_IMPORT_DEBIT_CSV
        /\ rows' = rs /\ dry_run' = dry /\ cli_account_id' = a
        /\ Ends(importDebitCsv(rs, a, dry))
    /\ invocations' = 1
    /\ UNCHANGED <<msgs, account_map>>

RunImportRevolutCsv ==
    /\ pc = "ready"
    /\ \E rs \in SeqsUpTo(RevolutRows, MaxRows), a \in AccountIds, dry \in BOOLEAN :
        /\ mode' = MODE_IMPORT_REVOLUT_CSV
        /\ rows' = rs /\ dry_run' = dry /\ cli_account_id' = a
        /\ Ends(importRevolutCsv(rs, a, dry))
    /\ invocations' = 1
    /\ UNCHANGED <<msgs, account_map>>

RunImportUbsFromEmail ==
    /\ pc = "ready"
    /\ \E ms \in SeqsUpTo(Messages, MaxMsgs), amap \in AccountMaps, dry \in BOOLEAN :
        /\ mode' = MODE_IMPORT_UBS_FROM_GMAIL
        /\ msgs' = ms /\ dry_run' = dry /\ account_map' = amap
        /\ Ends(importUbsFromEmail(ms, amap, dry))
    /\ invocations' = 1
    /\ UNCHANGED <<rows, cli_account_id>>

\* The dispatch on args.mode.
Main(md, rs, ms, a, amap, dry) ==
    CASE md = MODE_IMPORT_UBS_FROM_GMAIL -> importUbsFromEmail(ms, amap, dry)
      [] md = MODE_IMPORT_CREDIT_CSV -> importCreditCsv(rs, a, dry)
      [] md = MODE_IMPORT_DEBIT_CSV -> importDebitCsv(rs, a, dry)
      [] md = MODE_IMPORT_REVOLUT_CSV -> importRevolutCsv(rs, a, dry)

\* After a run with --dry_run the program is invoked again on the same input
\* and with the same arguments, --dry_run left out.
RunAgainWithoutDryRun ==
    /\ pc \in {"done", "failed"}
    /\ invocations = 1
    /\ dry_run
    /\ dry_run' = FALSE
    /\ invocations' = 2
    /\ Ends(Main(mode, rows, msgs, cli_account_id, account_map, FALSE))
    /\ UNCHANGED <<mode, rows, msgs, cli_account_id, account_map>>

Next ==
    \/ RunImportCreditCsv
    \/ RunImportDebitCsv
    \/ RunImportRevolutCsv
    \/ RunImportUbsFromEmail
    \/ RunAgainWithoutDryRun

Spec == Init /\ [][Next]_vars

(***************************************************************************)
(* Claims about _populateImportIds (AssignSpec).                           *)
(***************************************************************************)
\* The list positions of the transactions with the date and amount of txs[i].
GroupOf(txs, i) == { j \in 1..Len(txs) : txs[j].var_date = txs[i].var_date
                                         /\ txs[j].amount = txs[i].amount }

\* _populateImportIds has run on `batch` and `transactions` is its result.
Assigned == pc \in {"assigned", "reimported", "relabelled"}

\* C1: after _populateImportIds on a batch without import_ids, the ordinal of
\* a transaction is the number of transactions of its (var_date, amount)
\* group that come after it in the list, and the ordinals of a group of size
\* k are exactly 0..k-1, each carried once.
C1_OrdinalsContiguousOldestFirst ==
    (Assigned /\ NoIds(batch)) =>
        \A i \in 1..Len(transactions) :
            LET t == transactions[i]
                G == GroupOf(transactions, i)
            IN  /\ t.import_id = FormatImportId(t.amount, t.var_date,
                                     Cardinality({ j \in G : j > i }))
                /\ \A n \in 0..(Cardinality(G) - 1) :
                      Cardinality({ j \in G : transactions[j].import_id =
                          FormatImportId(t.amount, t.var_date, n) }) = 1

C1_Witness ==
    /\ Assigned /\ NoIds(batch) /\ Len(batch) = 3
    /\ Cardinality(GroupOf(transactions, 1)) = 2
    /\ transactions[1].import_id =
         FormatImportId(transactions[1].amount, transactions[1].var_date, 1)

\* C2: after _populateImportIds on a batch without import_ids, no two list
\* positions carry the same import_id, whatever the accounts.
C2_ImportIdsPairwiseDistinct ==
    (Assigned /\ NoIds(batch)) =>
        \A i, j \in 1..Len(transactions) :
            i # j => transactions[i].import_id # transactions[j].import_id

C2_Witness ==
    /\ pc = "relabelled"
    /\ \E i, j \in 1..Len(transactions) :
         /\ i # j
         /\ j \in GroupOf(transactions, i)
         /\ transactions[i].account_id # transactions[j].account_id
         /\ transactions[i].import_id \notin {None, ""}

\* C3: _populateImportIds leaves the import_id of every transaction that
\* already carried one unchanged, also when an unassigned transaction of the
\* same (var_date, amount) group is in the batch.
C3_AssignedNeverRewritten ==
    Assigned =>
        \A i \in 1..Len(batch) :
            batch[i].import_id \notin {None, ""} =>
                transactions[i].import_id = batch[i].import_id

\* C4: a call on a batch in which every transaction has an import_id changes
\* no field of any transaction.
C4_Idempotent == (Assigned /\ AllIds(batch)) => transactions = batch

\* The second call on the result of a first call that numbered a group of two.
C4_Witness ==
    /\ Assigned /\ AllIds(batch) /\ Len(batch) >= 2
    /\ \E i \in 1..Len(batch) :
         batch[i].import_id = FormatImportId(batch[i].amount, batch[i].var_date, 1)

\* C6: when newer transactions are prepended to a batch and the whole is
\* assigned anew, every transaction of the old batch gets the import_id it
\* got before.
C6_ReplayStable ==
    [][(pc = "assigned" /\ pc' = "reimported" /\ NoIds(batch)) =>
         \A i \in 1..Len(batch) :
            transactions'[Len(batch') - Len(batch) + i].import_id
                = transactions[i].import_id]_vars

C6_Witness ==
    /\ pc = "reimported" /\ NoIds(batch) /\ Len(batch) >= 3
    /\ Cardinality(GroupOf(transactions, 1)) >= 2
    /\ transactions[1].import_id =
         FormatImportId(transactions[1].amount, transactions[1].var_date,
                        Cardinality(GroupOf(transactions, 1)) - 1)

\* C7: two batches that agree position by position on var_date and amount
\* and differ in payee_name, account_id or cleared get the same import_ids
\* position by position.
C7_IdsIgnoreOtherFields ==
    [][(pc = "assigned" /\ pc' = "relabelled") =>
         \A i \in 1..Len(batch) :
            transactions'[i].import_id = transactions[i].import_id]_vars

C7_Witness ==
    /\ pc = "relabelled" /\ NoIds(batch)
    /\ \E i, j \in 1..Len(transactions) :
         /\ i < j
         /\ j \in GroupOf(transactions, i)
         /\ transactions[i].payee_name # transactions[j].payee_name
         /\ transactions[i].import_id =
              FormatImportId(transactions[i].amount, transactions[i].var_date, 1)

(***************************************************************************)
(* Claims about the importers (Spec).                                      *)
(***************************************************************************)
\* The notification list of the run, and the logging call each notification
\* made (every notification that is processed makes exactly one).
RunNotifications == Notifications(msgs)

NotificationEvents ==
    {"credit_card_outflow", "matched_credit_inflow", "no_debit_outflow_nearby",
     "debit_account_notification", "unknown_notification"}

NotificationLog == SelectSeq(log, LAMBDA e : e.event \in NotificationEvents)

EmailRun(p) == mode = MODE_IMPORT_UBS_FROM_GMAIL /\ pc = p

\* Notification i appended a transaction.
Emitted(i) ==
    /\ i <= Len(NotificationLog)
    /\ NotificationLog[i].event \in
         {"credit_card_outflow", "matched_credit_inflow", "debit_account_notification"}

\* The transaction notification i appended, in the (reversed) batch.
TxOf(i) ==
    transactions[Len(transactions) + 1 - Cardinality({ k \in 1..i : Emitted(k) })]

\* Record j is a neighbour list position holding a 'debited' account
\* notification less than one minute away from notification i.
DebitedWithinWindow(j, i) ==
    /\ j \in 1..Len(RunNotifications)
    /\ RunNotifications[j].kind = "account"
    /\ RunNotifications[j].action = "debited"
    /\ Abs(RunNotifications[j].date - RunNotifications[i].date) < 60

\* The same, at a stated distance in seconds.
DebitedAtDistance(j, i, secs) ==
    /\ j \in 1..Len(RunNotifications)
    /\ RunNotifications[j].kind = "account"
    /\ RunNotifications[j].action = "debited"
    /\ Abs(RunNotifications[j].date - RunNotifications[i].date) = secs

NonZero(j) == RunNotifications[j].cents > 0

IsInflow(i) == RunNotifications[i].kind = "card_inflow"

\* The inflow notification i appended its transaction: a positive amount on
\* the card's account at the inflow's own date.
InflowEmitted(i) ==
    /\ Emitted(i)
    /\ TxOf(i).account_id = account_map[RunNotifications[i].alias]
    /\ TxOf(i).var_date = DateOf(RunNotifications[i].date)
    /\ TxOf(i).amount > 0

\* C5: every transaction of a batch handed to _createYnabTransactions has an
\* import_id UBS2YNAB:<amount>:<ISO date>:<ordinal> made of its own amount
\* and var_date.
C5_BatchHasImportIds ==
    \A k \in 1..Len(data) :
        \A i \in 1..Len(data[k]) :
            LET t == data[k][i]
            IN  /\ t.import_id \notin {None, ""}
                /\ \E n \in 0..(Len(data[k]) - 1) :
                      t.import_id = "UBS2YNAB:" \o ToString(t.amount) \o ":"
                                    \o IsoFormat(t.var_date) \o ":" \o ToString(n)

C5_Witness ==
    /\ EmailRun("done") /\ Len(data) = 1 /\ Len(data[1]) = 3
    /\ data[1][1].import_id = "UBS2YNAB:-2009:2025-01-02:1"
    /\ data[1][2].import_id = "UBS2YNAB:-2009:2025-01-02:0"

\* C8 as stated: an inflow notification gets its transaction if and only if
\* a neighbouring 'debited' notification is less than 60 s away.
C8_CompanionIffWithinWindow ==
    EmailRun("done") =>
        \A i \in 1..Len(RunNotifications) :
            IsInflow(i) =>
                (InflowEmitted(i) <=>
                    (DebitedWithinWindow(i - 1, i) \/ DebitedWithinWindow(i + 1, i)))

\* C8 as amended: an inflow notification gets its transaction if and only if
\* a neighbouring 'debited' notification that states a non-zero magnitude is
\* less than 60 s away (59 s: yes, 60 s: no).
C8_NonZeroCompanionIffWithinWindow ==
    EmailRun("done") =>
        \A i \in 1..Len(RunNotifications) :
            IsInflow(i) =>
                (InflowEmitted(i) <=>
                    \/ (DebitedWithinWindow(i - 1, i) /\ NonZero(i - 1))
                    \/ (DebitedWithinWindow(i + 1, i) /\ NonZero(i + 1)))

\* An inflow with a debit exactly 60 s before it and one 59 s after it.
C8_Witness ==
    /\ EmailRun("done")
    /\ Len(RunNotifications) = 3 /\ IsInflow(2)
    /\ DebitedAtDistance(1, 2, 60) /\ NonZero(1)
    /\ DebitedAtDistance(3, 2, 59) /\ NonZero(3)
    /\ InflowEmitted(2)

\* The alias of notification i has a non-empty entry in account_map.
AliasMapped(i) ==
    /\ RunNotifications[i].alias \in DOMAIN account_map
    /\ account_map[RunNotifications[i].alias] \notin {None, ""}

\* Notification i is recoverable-dropped, `companion` saying which neighbours
\* count as companion of an inflow: it matches no pattern, or it is an inflow
\* without companion at i-1 and at i+1.
Unknown(i) == RunNotifications[i].kind = "other"

NonZeroCompanion(j, i) == DebitedWithinWindow(j, i) /\ NonZero(j)

LoneInflow(i) ==
    IsInflow(i) /\ ~DebitedWithinWindow(i - 1, i) /\ ~DebitedWithinWindow(i + 1, i)

UnresolvedInflow(i) ==
    IsInflow(i) /\ ~NonZeroCompanion(i - 1, i) /\ ~NonZeroCompanion(i + 1, i)

\* The run is not aborted by the dropped notifications, converts every
\* notification outside `dropped` and none inside, and submits the batch.
DropsAreRecoverable(dropped(_)) ==
    LET ns == RunNotifications
        kept == { i \in 1..Len(ns) : ~dropped(i) }
    IN  mode = MODE_IMPORT_UBS_FROM_GMAIL =>
          /\ pc \in {"done", "failed"}
          /\ pc = "failed" => \E i \in kept : ~AliasMapped(i)
          /\ pc = "done" =>
               /\ Len(NotificationLog) = Len(ns)
               /\ \A i \in 1..Len(ns) : Emitted(i) <=> i \in kept
               /\ Len(transactions) = Cardinality(kept)
               /\ (~dry_run /\ Len(ns) > 0) => api_calls = <<transactions>>

\* C9 as stated: an inflow without a 'debited' neighbour less than 60 s away,
\* and a notification matching no pattern, produce no transaction and do not
\* abort the run; every other notification is converted and the batch is
\* submitted.
C9_DropsDoNotAbort == DropsAreRecoverable(LAMBDA i : Unknown(i) \/ LoneInflow(i))

\* C9 as amended: the inflows that are dropped are those without a 'debited'
\* neighbour less than 60 s away that states a non-zero magnitude.
C9_UnresolvedDropsDoNotAbort ==
    DropsAreRecoverable(LAMBDA i : Unknown(i) \/ UnresolvedInflow(i))

\* An unknown notification, a lone inflow and a card outflow, submitted as a
\* batch of one.
C9_Witness ==
    /\ EmailRun("done") /\ ~dry_run
    /\ Len(RunNotifications) = 3
    /\ Unknown(1) /\ LoneInflow(2) /\ RunNotifications[3].kind = "card_outflow"
    /\ Len(transactions) = 1
    /\ api_calls = <<transactions>>

\* C10: when exactly one neighbour of an inflow qualifies as companion, the
\* inflow's transaction has the account of the inflow's card, the date of the
\* inflow's timestamp, no payee and +1000 times the companion's magnitude,
\* whichever side the companion is on.
C10_InflowTakesCompanionMagnitude ==
    EmailRun("done") =>
        \A i \in 1..Len(RunNotifications) :
            \A j \in {i - 1, i + 1} :
                (/\ IsInflow(i)
                 /\ NonZeroCompanion(j, i)
                 /\ ~NonZeroCompanion(2 * i - j, i)) =>
                    /\ Emitted(i)
                    /\ TxOf(i).account_id = account_map[RunNotifications[i].alias]
                    /\ TxOf(i).var_date = DateOf(RunNotifications[i].date)
                    /\ TxOf(i).payee_name = None
                    /\ TxOf(i).amount = (1000 * RunNotifications[j].cents) \div 100

\* C11: a 'debited' account notification that resolves a card inflow still
\* appends its own transaction, with a negative amount, its own account and
\* its own date, next to the inflow's transaction; a batch fetched as just the
\* inflow and its companion holds exactly two transactions.
C11_CompanionKeepsOwnTransaction ==
    EmailRun("done") =>
        \A i \in 1..Len(RunNotifications) :
            \A j \in {i - 1, i + 1} :
                (IsInflow(i) /\ InflowEmitted(i) /\ NonZeroCompanion(j, i)) =>
                    /\ Emitted(j)
                    /\ TxOf(j).amount < 0
                    /\ TxOf(j).account_id = account_map[RunNotifications[j].alias]
                    /\ TxOf(j).var_date = DateOf(RunNotifications[j].date)
                    /\ TxOf(j).account_id # TxOf(i).account_id
                    /\ Len(RunNotifications) = 2 => Len(transactions) = 2

\* The companion is fetched first, one second before midnight, the inflow at
\* midnight: two transactions, on two dates.
C11_Witness ==
    /\ EmailRun("done")
    /\ Len(RunNotifications) = 2 /\ IsInflow(2) /\ NonZeroCompanion(1, 2)
    /\ Len(transactions) = 2
    /\ transactions[1].amount > 0 /\ transactions[1].var_date = Date(2025, 1, 2)
    /\ transactions[2].amount < 0 /\ transactions[2].var_date = Date(2025, 1, 1)

\* Notification i classifies as card outflow, card inflow or account
\* debit/credit.
Classified(i) == RunNotifications[i].kind \in {"card_outflow", "card_inflow", "account"}

\* C12 as stated: a run in which the alias of any classified notification is
\* unmapped fails.
C12_UnmappedAliasIsFatal ==
    mode = MODE_IMPORT_UBS_FROM_GMAIL =>
        ((\E i \in 1..Len(RunNotifications) : Classified(i) /\ ~AliasMapped(i))
            => (pc = "failed" /\ error = "KeyError"))

\* C12 as amended: the run fails with KeyError if and only if the alias of a
\* card outflow, of an account debit/credit or of a card inflow that has a
\* companion (a 'debited' neighbour less than 60 s away stating a non-zero
\* magnitude) has no non-empty entry in account_map; the alias of an inflow
\* without companion is not looked up.
C12_LookedUpAliasIsFatal ==
    mode = MODE_IMPORT_UBS_FROM_GMAIL =>
        /\ (\E i \in 1..Len(RunNotifications) :
                Classified(i) /\ ~UnresolvedInflow(i) /\ ~AliasMapped(i))
              <=> pc = "failed"
        /\ pc = "failed" => (error = "KeyError" /\ api_calls = <<>>)

\* The card is mapped to '': an inflow resolved by the debit after it fails
\* the run.
C12_Witness ==
    /\ EmailRun("failed") /\ error = "KeyError"
    /\ Len(RunNotifications) = 2 /\ IsInflow(1) /\ NonZeroCompanion(2, 1)
    /\ ~AliasMapped(1)

\* C13: every transaction importUbsFromEmail places in the batch has a
\* non-zero amount, also when a card outflow or an account debit/credit
\* states the magnitude 0.00.
C13_AmountsAreNonZero ==
    EmailRun("done") =>
        \A i \in 1..Len(transactions) : transactions[i].amount # 0

\* C14: a run that ends in a fatal error raised while the batch is built
\* (KeyError for an unmapped alias, ValueError for a malformed date or a
\* non-numeric amount), at whatever position of the input, has not called
\* _createYnabTransactions, has submitted nothing, and none of the
\* transactions built from the earlier rows or notifications has an import_id.
C14_FatalErrorBeforeAssignAndSubmit ==
    pc = "failed" =>
        /\ error \in {"KeyError", "ValueError"}
        /\ data = <<>>
        /\ api_calls = <<>>
        /\ \A i \in 1..Len(transactions) : transactions[i].import_id = None

\* Two notifications are converted, the third has an unmapped alias.
C14_Witness ==
    /\ EmailRun("failed") /\ error = "KeyError"
    /\ Len(RunNotifications) = 3 /\ ~AliasMapped(3)
    /\ Len(transactions) = 2
    /\ transactions[1].import_id = None /\ transactions[2].import_id = None

\* The same in a CSV import: the second row has a malformed date.
C14_CsvWitness ==
    /\ mode = MODE_IMPORT_CREDIT_CSV /\ pc = "failed" /\ error = "ValueError"
    /\ Len(rows) = 2 /\ ~IsDmy(rows[2].purchase_date)
    /\ Len(transactions) = 1 /\ transactions[1].import_id = None

\* C15: a run with dry_run=True makes no call of
\* TransactionsApi.create_transaction, and the same input run with
\* dry_run=False ends the same way with the same batch: the same
\* transactions, field by field, import_ids included.
C15_DryRunBuildsSameBatch ==
    /\ [](dry_run => api_calls = <<>>)
    /\ [][(dry_run /\ ~dry_run') =>
            /\ pc' = pc
            /\ error' = error
            /\ batch' = batch
            /\ transactions' = transactions
            /\ data' = data]_vars

\* A dry run built a batch of three with a numbered group of two; run again
\* without --dry_run the same batch was submitted.
C15_Witness ==
    /\ invocations = 2 /\ ~dry_run /\ pc = "done"
    /\ Len(transactions) = 3
    /\ transactions[1].import_id =
         FormatImportId(transactions[1].amount, transactions[1].var_date, 1)
    /\ api_calls = <<transactions>>

CsvModes == {MODE_IMPORT_CREDIT_CSV, MODE_IMPORT_DEBIT_CSV, MODE_IMPORT_REVOLUT_CSV}

\* What holds of every invocation: create_transaction is called at most once,
\* and with dry_run=False a CSV importer that completes calls it exactly once.
AtMostOneCall ==
    /\ Len(api_calls) <= 1
    /\ (mode \in CsvModes /\ pc = "done" /\ ~dry_run) => Len(api_calls) = 1

\* C16 as stated: ... and with dry_run=False importUbsFromEmail calls it
\* exactly once if at least one fetched message held a notification payload,
\* and zero times if none did.
C16_OneCallPerInvocation ==
    /\ AtMostOneCall
    /\ (mode = MODE_IMPORT_UBS_FROM_GMAIL /\ ~dry_run) =>
          Len(api_calls) = IF Len(RunNotifications) > 0 THEN 1 ELSE 0

\* C16 as amended: ... and with dry_run=False importUbsFromEmail, when it
\* completes, calls it exactly once if at least one fetched message held a
\* notification payload (also when the batch is empty) and zero times if none
\* did; a run that fails calls it zero times.
C16_OneCallPerCompletedInvocation ==
    /\ AtMostOneCall
    /\ (EmailRun("done") /\ ~dry_run) =>
          Len(api_calls) = IF Len(RunNotifications) > 0 THEN 1 ELSE 0
    /\ pc = "failed" => Len(api_calls) = 0

\* Every notification of the run is dropped: the empty batch is submitted.
C16_Witness ==
    /\ EmailRun("done") /\ ~dry_run
    /\ Len(RunNotifications) = 2 /\ Unknown(1) /\ LoneInflow(2)
    /\ transactions = <<>>
    /\ api_calls = << <<>> >>

\* The rows importCreditCsv reads: those before the first row without account
\* number.
RECURSIVE RowsBeforeSummary(_, _)
RowsBeforeSummary(rs, i) ==
    IF i > Len(rs) \/ rs[i].account_number = "" THEN <<>>
    ELSE <<rs[i]>> \o RowsBeforeSummary(rs, i + 1)

CreditCsvRun(p) == mode = MODE_IMPORT_CREDIT_CSV /\ pc = p

\* 1000 times the decimal value written in a field.
Thousandfold(f) == 10 * f.cents

\* The amount source of every row is chosen by priority, `value` saying what
\* amount a field's text stands for.
CreditCsvPriority(value(_)) ==
    CreditCsvRun("done") =>
        LET read == RowsBeforeSummary(rows, 1)
        IN  /\ Len(transactions) = Len(read)
            /\ \A k \in 1..Len(read) :
                 LET row == read[k]
                     t == transactions[k]
                 IN  /\ row.credit # EmptyField =>
                           (t.amount = value(row.credit) /\ t.cleared = CLEARED)
                     /\ (row.credit = EmptyField /\ row.debit # EmptyField) =>
                           (t.amount = -value(row.debit) /\ t.cleared = CLEARED)

\* C17: in importCreditCsv a non-empty Credit field gives amount =
\* +1000*Credit, cleared; otherwise a non-empty Debit field gives amount =
\* -1000*Debit, cleared; the Amount field is used only when both are empty,
\* whatever it contains.
C17_CreditCsvAmountPriority == CreditCsvPriority(Thousandfold)

\* C18: in importCreditCsv a row with empty Credit and Debit fields gives a
\* negative amount, or a positive one if the booking text is exactly
\* 'TRANSFER FROM ACCOUNT', and is uncleared, for every value of the signed
\* Amount field.
C18_AmountFieldSignFromBookingText ==
    CreditCsvRun("done") =>
        LET read == RowsBeforeSummary(rows, 1)
        IN  \A k \in 1..Len(read) :
               (read[k].credit = EmptyField /\ read[k].debit = EmptyField) =>
                   /\ k <= Len(transactions)
                   /\ transactions[k].cleared = UNCLEARED
                   /\ IF read[k].booking_text = "TRANSFER FROM ACCOUNT"
                      THEN transactions[k].amount > 0
                      ELSE transactions[k].amount < 0

DebitCsvRun(p) == mode = MODE_IMPORT_DEBIT_CSV /\ pc = p

\* Every row of a completed importDebitCsv run has its transaction: cleared,
\* with the amount of the Credit field when that is non-empty, else of the
\* Debit field, `value` saying what amount a field's text stands for.
DebitCsvAmounts(value(_)) ==
    DebitCsvRun("done") =>
        /\ Len(transactions) = Len(rows)
        /\ \A k \in 1..Len(rows) :
             /\ transactions[k].cleared = CLEARED
             /\ transactions[k].amount =
                  IF rows[k].credit # EmptyField THEN value(rows[k].credit)
                  ELSE value(rows[k].debit)

\* C19: in importDebitCsv every row yields a cleared transaction whose amount
\* is 1000 times the Credit field when Credit is non-empty, else 1000 times
\* the Debit field, the sign as written in the field.
C19_DebitCsvAmountAsGiven == DebitCsvAmounts(Thousandfold)

RevolutCsvRun(p) == mode = MODE_IMPORT_REVOLUT_CSV /\ pc = p

\* The row is a transfer to a pocket or a balance migration.
InternalTransfer(row) ==
    /\ row.type = "Transfer"
    /\ \/ (Len(row.description) >= 10 /\ SubSeq(row.description, 1, 10) = "To pocket ")
       \/ row.description = "Balance migration to another region or legal entity"

\* The list positions of the rows that are to yield a transaction.
CurrentRows == { k \in 1..Len(rows) : rows[k].product = "Current" /\ ~InternalTransfer(rows[k]) }

\* C20: in a completed importRevolutCsv run a row has its transaction if and
\* only if its Product is 'Current' and it is not a Transfer whose description
\* starts with 'To pocket ' or equals 'Balance migration to another region or
\* legal entity'; the transaction is cleared iff State is 'COMPLETED'.
C20_RevolutRowFilter ==
    RevolutCsvRun("done") =>
        /\ Len(transactions) = Cardinality(CurrentRows)
        /\ \A k \in CurrentRows :
             LET t == transactions[Len(transactions) + 1
                                   - Cardinality({ j \in CurrentRows : j <= k })]
             IN  /\ t.payee_name = rows[k].description
                 /\ t.cleared \in {CLEARED, UNCLEARED}
                 /\ t.cleared = CLEARED <=> rows[k].state = "COMPLETED"

\* A card payment 'To pocket CHF Savings', pending, is kept; the transfer of
\* the same description is not.
C20_Witness ==
    /\ RevolutCsvRun("done") /\ Len(rows) = 2
    /\ rows[1].type = "CARD_PAYMENT" /\ rows[1].description = "To pocket CHF Savings"
    /\ rows[1].state = "PENDING"
    /\ InternalTransfer(rows[2])
    /\ Len(transactions) = 1 /\ transactions[1].cleared = UNCLEARED

\* The transaction of row k of a completed importRevolutCsv run (k a member
\* of CurrentRows): the batch is in reverse row order.
RevolutTxOf(k) ==
    transactions[Len(transactions) + 1 - Cardinality({ j \in CurrentRows : j <= k })]

\* The fee is subtracted from the signed amount, `value` saying what amount a
\* field's text stands for.
RevolutFeeSubtracted(value(_)) ==
    RevolutCsvRun("done") =>
        \A k \in CurrentRows :
            RevolutTxOf(k).amount = value(rows[k].amount) - value(rows[k].fee)

\* C21: in importRevolutCsv the amount of a transaction is 1000*Amount -
\* 1000*Fee, for inflows and outflows alike.
C21_RevolutFeeAlwaysSubtracted == RevolutFeeSubtracted(Thousandfold)

\* The notifications of a completed importUbsFromEmail run that appended a
\* transaction.
EmittedNotifications == { i \in 1..Len(RunNotifications) : Emitted(i) }

\* Among the source positions S (oldest first), tx(k) being the transaction
\* of position k and label(k) the payee or account its source gives it: the
\* import_id of each transaction carries as ordinal the number of positions
\* before it in the source with its var_date and amount.
OrdinalsInSourceOrder(S, tx(_), label(_)) ==
    \A k \in S :
        /\ label(k) \in {tx(k).payee_name, tx(k).account_id}
        /\ tx(k).import_id =
              FormatImportId(tx(k).amount, tx(k).var_date,
                  Cardinality({ j \in S : /\ j < k
                                          /\ tx(j).var_date = tx(k).var_date
                                          /\ tx(j).amount = tx(k).amount }))

\* C22: in importRevolutCsv and importUbsFromEmail, among the transactions
\* sharing (var_date, amount) the one whose row or notification comes first
\* in the source gets ordinal 0 and each later one the next integer.
C22_OldestFirstSourcesNumberedFromOldest ==
    /\ RevolutCsvRun("done") =>
          OrdinalsInSourceOrder(CurrentRows, RevolutTxOf, LAMBDA k : rows[k].description)
    /\ EmailRun("done") =>
          OrdinalsInSourceOrder(EmittedNotifications, TxOf,
                                LAMBDA i : account_map[RunNotifications[i].alias])

\* Two rows of the same date and amount: the second row's transaction is
\* first in the batch and has ordinal 1.
C22_Witness ==
    /\ RevolutCsvRun("done") /\ CurrentRows = {1, 2}
    /\ rows[1].description = "First" /\ rows[2].description = "Second"
    /\ transactions[1].payee_name = "Second"
    /\ transactions[1].import_id =
         FormatImportId(transactions[2].amount, transactions[2].var_date, 1)
    /\ transactions[2].import_id =
         FormatImportId(transactions[2].amount, transactions[2].var_date, 0)

\* The same for two notifications of an e-mail run.
C22_EmailWitness ==
    /\ EmailRun("done") /\ EmittedNotifications = {1, 2}
    /\ TxOf(1).amount = TxOf(2).amount /\ TxOf(1).var_date = TxOf(2).var_date
    /\ TxOf(1).account_id # TxOf(2).account_id
    /\ transactions[1].import_id =
         FormatImportId(transactions[1].amount, transactions[1].var_date, 1)

\* The rank of row k among the rows that yield a transaction.
RankOf(k) == Cardinality({ j \in CurrentRows : j <= k })

\* C23 as stated: the batch importRevolutCsv hands to _createYnabTransactions
\* is in the order of the source rows, oldest first.
C23_RevolutBatchOldestFirst ==
    RevolutCsvRun("done") =>
        /\ Len(data) = 1
        /\ Len(data[1]) = Cardinality(CurrentRows)
        /\ \A k \in CurrentRows : data[1][RankOf(k)].payee_name = rows[k].description

\* C23 as amended: the batch importRevolutCsv hands to
\* _createYnabTransactions is the list _populateImportIds worked on, newest
\* first: the transactions appear in the reverse of the order of their rows.
C23_RevolutBatchNewestFirst ==
    RevolutCsvRun("done") =>
        /\ data = <<transactions>>
        /\ Len(data[1]) = Cardinality(CurrentRows)
        /\ \A k \in CurrentRows :
              data[1][Len(data[1]) + 1 - RankOf(k)].payee_name = rows[k].description

\* Rows 'First', 'Second' are submitted as 'Second', 'First'.
C23_Witness ==
    /\ RevolutCsvRun("done") /\ ~dry_run /\ CurrentRows = {1, 2}
    /\ rows[1].description = "First" /\ rows[2].description = "Second"
    /\ Len(api_calls) = 1
    /\ api_calls[1][1].payee_name = "Second" /\ api_calls[1][2].payee_name = "First"

\* The source field the amount of row k of importCreditCsv is taken from.
CreditCsvField(row) ==
    IF row.credit # EmptyField THEN row.credit
    ELSE IF row.debit # EmptyField THEN row.debit ELSE row.amount

\* The magnitude notification i hands to its transaction, in hundredths: its
\* own, or for an inflow that of a neighbouring non-zero 'debited' companion.
MagnitudesOf(i) ==
    IF IsInflow(i)
    THEN { RunNotifications[j].cents : j \in { n \in {i - 1, i + 1} : NonZeroCompanion(n, i) } }
    ELSE { RunNotifications[i].cents }

\* C24: every amount handed to _createYnabTransactions is, up to the sign the
\* importer gives it, exactly 1000 times the decimal value written in the
\* source (for importRevolutCsv: 1000*Amount - 1000*Fee).
C24_AmountsAreExact ==
    /\ CreditCsvRun("done") =>
          \A k \in 1..Len(data[1]) :
              Abs(data[1][k].amount) = Abs(Thousandfold(CreditCsvField(rows[k])))
    /\ DebitCsvRun("done") =>
          \A k \in 1..Len(data[1]) :
              data[1][k].amount =
                  Thousandfold(IF rows[k].credit # EmptyField THEN rows[k].credit
                               ELSE rows[k].debit)
    /\ RevolutCsvRun("done") =>
          \A k \in CurrentRows :
              data[1][Len(data[1]) + 1 - RankOf(k)].amount =
                  Thousandfold(rows[k].amount) - Thousandfold(rows[k].fee)
    /\ (EmailRun("done") /\ Len(data) = 1) =>
          \A i \in EmittedNotifications :
              \E c \in MagnitudesOf(i) : Abs(TxOf(i).amount) = 10 * c

\* C25: when a batch without import_ids and its reversal are both assigned,
\* a transaction that has ordinal j in the batch, in a (var_date, amount)
\* group of size k, has ordinal k-1-j in the reversed batch; in every group
\* of two or more some transaction gets two different import_ids.
C25_ReversedBatchReversesOrdinals ==
    [][(pc = "assigned" /\ pc' = "reversed") =>
         \A i \in 1..Len(batch) :
            LET n == Len(batch)
                t == transactions[i]
                G == GroupOf(transactions, i)
                k == Cardinality(G)
            IN  /\ \E j \in 0..(k - 1) :
                      /\ t.import_id = FormatImportId(t.amount, t.var_date, j)
                      /\ transactions'[n + 1 - i].import_id =
                             FormatImportId(t.amount, t.var_date, k - 1 - j)
                /\ k >= 2 => \E m \in G :
                      transactions'[n + 1 - m].import_id # transactions[m].import_id]_vars

\* A reversed batch of three holding a group of two.
C25_Witness ==
    /\ pc = "reversed" /\ Len(batch) = 3
    /\ Cardinality(GroupOf(transactions, 1)) = 2
    /\ transactions[1].import_id =
         FormatImportId(transactions[1].amount, transactions[1].var_date, 1)

\* The fetched messages that hold a notification payload, by position in
\* msgs, and the nearest of them before and after position a (0: none).
PayloadPositions == { a \in 1..Len(msgs) : msgs[a].kind # "no_payload" }

PrevPayload(a) ==
    LET S == { b \in PayloadPositions : b < a }
    IN  IF S = {} THEN 0 ELSE CHOOSE b \in S : \A c \in S : c <= b

NextPayload(a) ==
    LET S == { b \in PayloadPositions : b > a }
    IN  IF S = {} THEN 0 ELSE CHOOSE b \in S : \A c \in S : c >= b

\* The position in the notification list of the message at position a.
NotificationOf(a) == Cardinality({ b \in PayloadPositions : b <= a })

\* Message b is a 'debited' account notification with a non-zero magnitude,
\* less than 60 s away from message a.
DebitedMessageNear(b, a) ==
    /\ b \in 1..Len(msgs)
    /\ msgs[b].kind = "account" /\ msgs[b].action = "debited" /\ msgs[b].cents > 0
    /\ Abs(msgs[b].date - msgs[a].date) < 60

\* C26: an inflow is resolved only from the nearest message with a payload
\* before it and the nearest one after it: it gets its transaction if and
\* only if one of the two is a 'debited' notification within 60 s stating a
\* non-zero magnitude, and then takes the amount from one of the two.  A notification no pattern matches
\* holds a neighbour position; a message without payload holds none.
C26_OnlyNeighboursResolve ==
    EmailRun("done") =>
        \A a \in PayloadPositions :
            msgs[a].kind = "card_inflow" =>
                LET near == { b \in {PrevPayload(a), NextPayload(a)} : DebitedMessageNear(b, a) }
                IN  /\ Emitted(NotificationOf(a)) <=> near # {}
                    /\ Emitted(NotificationOf(a)) =>
                          \E b \in near :
                              TxOf(NotificationOf(a)).amount = -TxOf(NotificationOf(b)).amount

\* A debit, a message without payload, the inflow: the inflow is resolved.
C26_Witness ==
    /\ EmailRun("done") /\ Len(msgs) = 3
    /\ DebitedMessageNear(1, 3) /\ msgs[2].kind = "no_payload" /\ msgs[3].kind = "card_inflow"
    /\ Len(transactions) = 2 /\ transactions[1].amount > 0

\* A debit, an unknown notification, the inflow: the inflow is dropped.
C26_BlockedWitness ==
    /\ EmailRun("done") /\ Len(msgs) = 3
    /\ DebitedMessageNear(1, 3) /\ msgs[2].kind = "other" /\ msgs[3].kind = "card_inflow"
    /\ Len(transactions) = 1 /\ transactions[1].amount < 0

\* C27 as stated: when the preceding and the following neighbour of an inflow
\* are both 'debited' notifications less than 60 s away, the inflow's amount
\* is the magnitude of the preceding one.
C27_PrecedingWins ==
    EmailRun("done") =>
        \A i \in 1..Len(RunNotifications) :
            (IsInflow(i) /\ DebitedWithinWindow(i - 1, i) /\ DebitedWithinWindow(i + 1, i)) =>
                /\ Emitted(i)
                /\ TxOf(i).amount = -TxOf(i - 1).amount

\* C27 as amended: a neighbour qualifies when it is a 'debited' notification
\* less than 60 s away that states a non-zero magnitude.  When both
\* neighbours qualify the inflow's amount is the magnitude of the preceding
\* one, whichever is closer in time; the following one gives the amount only
\* if the preceding one does not qualify.
C27_NonZeroPrecedingWins ==
    EmailRun("done") =>
        \A i \in 1..Len(RunNotifications) :
            IsInflow(i) =>
                /\ NonZeroCompanion(i - 1, i) =>
                      (Emitted(i) /\ TxOf(i).amount = -TxOf(i - 1).amount)
                /\ (~NonZeroCompanion(i - 1, i) /\ NonZeroCompanion(i + 1, i)) =>
                      (Emitted(i) /\ TxOf(i).amount = -TxOf(i + 1).amount)

\* The preceding debit is 59 s away, the following one 1 s, with another
\* magnitude: the inflow carries the preceding one's.
C27_Witness ==
    /\ EmailRun("done") /\ Len(RunNotifications) = 3 /\ IsInflow(2)
    /\ DebitedAtDistance(1, 2, 59) /\ NonZero(1)
    /\ DebitedAtDistance(3, 2, 1) /\ NonZero(3)
    /\ RunNotifications[1].cents # RunNotifications[3].cents
    /\ TxOf(2).amount = -TxOf(1).amount
    /\ TxOf(2).amount # -TxOf(3).amount

\* The position of the first row without account number (Len(rows) + 1 when
\* every row has one).
SummaryRow ==
    LET S == { k \in 1..Len(rows) : rows[k].account_number = "" }
    IN  IF S = {} THEN Len(rows) + 1 ELSE CHOOSE k \in S : \A j \in S : k <= j

\* C28: a completed importCreditCsv run has one transaction for each row
\* before the first row without account number, in row order, and none for
\* that row or any row after it, whether or not it has an account number.
C28_CreditCsvStopsAtSummary ==
    CreditCsvRun("done") =>
        /\ Len(transactions) = SummaryRow - 1
        /\ \A k \in 1..(SummaryRow - 1) :
              /\ transactions[k].payee_name = rows[k].booking_text
              /\ transactions[k].var_date = rows[k].purchase_date.date

\* The first row has no account number, the second has one: no transaction.
C28_Witness ==
    /\ CreditCsvRun("done") /\ Len(rows) = 2
    /\ rows[1].account_number = "" /\ rows[2].account_number # ""
    /\ transactions = <<>>

\* A row with account number before the row without: one transaction.
C28_BeforeWitness ==
    /\ CreditCsvRun("done") /\ Len(rows) = 2
    /\ rows[1].account_number # "" /\ rows[2].account_number = ""
    /\ Len(transactions) = 1

\* The batch handed to _createYnabTransactions is txs, and the transaction at
\* each position carries as ordinal the number of later positions with its
\* var_date and amount: the first of a group the largest, the last 0.
SubmittedNewestFirst(txs) ==
    /\ data = <<txs>>
    /\ ~dry_run => api_calls = <<txs>>
    /\ \A k \in 1..Len(txs) :
          txs[k].import_id =
              FormatImportId(txs[k].amount, txs[k].var_date,
                  Cardinality({ j \in (k + 1)..Len(txs) :
                                  /\ txs[j].var_date = txs[k].var_date
                                  /\ txs[j].amount = txs[k].amount }))

\* C29: importCreditCsv and importDebitCsv submit one transaction per scanned
\* row, in the order of the rows, and among rows sharing (date, amount) the
\* first in the file has the largest ordinal and the last has 0.
C29_CsvBatchInSourceOrder ==
    /\ CreditCsvRun("done") =>
          /\ Len(transactions) = SummaryRow - 1
          /\ \A k \in 1..Len(transactions) :
                transactions[k].payee_name = rows[k].booking_text
          /\ SubmittedNewestFirst(transactions)
    /\ DebitCsvRun("done") =>
          /\ Len(transactions) = Len(rows)
          /\ \A k \in 1..Len(transactions) :
                transactions[k].var_date = rows[k].trade_date.date
          /\ SubmittedNewestFirst(transactions)

\* Two debit rows of the same date and amount: ordinals 1, 0.
C29_Witness ==
    /\ DebitCsvRun("done") /\ ~dry_run /\ Len(rows) = 2
    /\ rows[1] = rows[2]
    /\ api_calls[1][1].import_id =
         FormatImportId(transactions[1].amount, transactions[1].var_date, 1)
    /\ api_calls[1][2].import_id =
         FormatImportId(transactions[1].amount, transactions[1].var_date, 0)

\* Two credit card rows of the same date and amount, told apart by their
\* booking text.
C29_CreditWitness ==
    /\ CreditCsvRun("done") /\ Len(transactions) = 2
    /\ transactions[1].payee_name # transactions[2].payee_name
    /\ transactions[1].import_id =
         FormatImportId(transactions[2].amount, transactions[2].var_date, 1)

\* Notification i is a 'debited' notification stating a non-zero magnitude
\* with a card inflow less than 60 s away on either side, and the inflow
\* before it has no companion of its own before it.
ServesTwoInflows(i) ==
    /\ i - 1 \in 1..Len(RunNotifications) /\ IsInflow(i - 1)
    /\ i + 1 \in 1..Len(RunNotifications) /\ IsInflow(i + 1)
    /\ NonZeroCompanion(i, i - 1) /\ NonZeroCompanion(i, i + 1)
    /\ ~NonZeroCompanion(i - 2, i - 1)

\* C30: a 'debited' notification with an inflow immediately before it and an
\* inflow immediately after it, both within 60 s, resolves both: each inflow
\* has its positive transaction with the debit's magnitude, next to the
\* debit's own transaction.
C30_DebitServesBothInflows ==
    EmailRun("done") =>
        \A i \in 1..Len(RunNotifications) :
            ServesTwoInflows(i) =>
                /\ Emitted(i - 1) /\ Emitted(i) /\ Emitted(i + 1)
                /\ TxOf(i).amount < 0
                /\ TxOf(i - 1).amount = -TxOf(i).amount
                /\ TxOf(i + 1).amount = -TxOf(i).amount
                /\ TxOf(i - 1).account_id = account_map[RunNotifications[i - 1].alias]
                /\ TxOf(i + 1).account_id = account_map[RunNotifications[i + 1].alias]

\* Inflow, debit, inflow: three transactions, two of them positive.
C30_Witness ==
    /\ EmailRun("done") /\ Len(RunNotifications) = 3 /\ ServesTwoInflows(2)
    /\ Len(transactions) = 3
    /\ transactions[1].amount > 0 /\ transactions[2].amount < 0
    /\ transactions[3].amount = transactions[1].amount

====
